---- MODULE Spec2Model ----
(***************************************************************************)
(* Shamir secret sharing with Feldman and Pedersen verifiable extensions   *)
(* (crate shamir_secret_sharing, modules polynomial and secret_sharing).   *)
(*                                                                         *)
(* sm2::Scalar is a prime field and sm2::ProjectivePoint a group of the    *)
(* same prime order.  Both are scaled down to the prime Q: a Scalar is a   *)
(* residue mod Q, a point is written by its discrete logarithm to the base *)
(* ProjectivePoint::GENERATOR, so point addition is addition mod Q and     *)
(* point * scalar is multiplication mod Q.                                 *)
(***************************************************************************)
EXTENDS Integers, Sequences, FiniteSets, TLC

\* Order of the scalar field and of the point group (a prime).
Q == 5
\* Largest number of shares n a dealer asks for.  Share indices are
\* Scalar::from(i as u64) for i <= n <= u64::MAX, far below the real field
\* order, so they stay distinct and nonzero: MaxN stays below Q - 1.
MaxN == 3
\* Largest n (and so largest threshold t <= n) of a Pedersen sharing.
MaxPedersenN == 2
\* Largest number of caller-supplied shares in a direct reconstruct call.
MaxShares == 3

VARIABLES pc, scheme, secret, n, t, g, h, poly, blinding_poly, commitments,
          shares, outcome, op, arg, commitment_at_x, ret

vars == <<pc, scheme, secret, n, t, g, h, poly, blinding_poly, commitments,
          shares, outcome, op, arg, commitment_at_x, ret>>

dealer == <<scheme, secret, n, t, g, h, poly, blinding_poly, commitments,
            shares, outcome>>

-----------------------------------------------------------------------------
(* sm2::Scalar *)

Scalar == 0 .. (Q - 1)
ZERO == 0
ONE == 1
add(a, b) == (a + b) % Q
sub(a, b) == (a + Q - b) % Q
mul(a, b) == (a * b) % Q

\* Scalar::from(i as u64)
from(i) == i % Q

\* Scalar::invert: CtOption, none at zero.
invert(a) ==
    IF a = ZERO THEN [is_some |-> FALSE, value |-> ZERO]
    ELSE [is_some |-> TRUE, value |-> CHOOSE b \in Scalar : mul(a, b) = ONE]

\* Scalar::pow with a small exponent e (x.pow(&[i as u64, 0, 0, 0])).
RECURSIVE pow(_, _)
pow(x, e) == IF e = 0 THEN ONE ELSE mul(pow(x, e - 1), x)

-----------------------------------------------------------------------------
(* sm2::ProjectivePoint *)

Point == 0 .. (Q - 1)
IDENTITY == 0
GENERATOR == 1
point_add(p, q) == (p + q) % Q
point_mul(p, s) == (p * s) % Q

-----------------------------------------------------------------------------
(* polynomial.rs *)

\* Polynomial::new drawing one coefficient too many (0..=degree).
Polynomial_new_inclusive(s, degree, rng) ==
    <<s>> \o SubSeq(rng, 1, degree) \o <<ZERO>>

\* Polynomial::new: the secret, then `degree` draws of the rng.
Polynomial_new(s, degree, rng) == <<s>> \o SubSeq(rng, 1, degree)

\* evaluate folding the coefficients without reversing them (lowest first).
RECURSIVE evaluate_unreversed(_, _)
evaluate_unreversed(coefficients, x) ==
    IF coefficients = <<>> THEN ZERO
    ELSE add(mul(evaluate_unreversed(SubSeq(coefficients, 1, Len(coefficients) - 1), x), x),
             coefficients[Len(coefficients)])

\* Polynomial::evaluate: Horner's rule from the highest coefficient down.
RECURSIVE evaluate(_, _)
evaluate(coefficients, x) ==
    IF coefficients = <<>> THEN ZERO
    ELSE add(mul(evaluate(Tail(coefficients), x), x), Head(coefficients))

\* Polynomial::feldman_commit: C_i = g * c_i.
feldman_commit(coefficients, gg) ==
    [i \in 1 .. Len(coefficients) |-> point_mul(gg, coefficients[i])]

\* The Pedersen commitment leaving out the constant coefficient.
pedersen_commit_skip_constant(coefficients, gg, hh, rng) ==
    [commitments |->
        [i \in 1 .. Len(coefficients) - 1 |->
            point_add(point_mul(gg, coefficients[i + 1]), point_mul(hh, rng[i + 1]))],
     blinding_poly |-> [i \in 1 .. Len(coefficients) - 1 |-> rng[i + 1]]]

\* Polynomial::commit, the Pedersen commitment (its callers name it
\* pedersen_commit): per coefficient one draw r of the rng,
\* C_i = g * c_i + h * r_i, and the draws as the blinding polynomial.
pedersen_commit(coefficients, gg, hh, rng) ==
    [commitments |->
        [i \in 1 .. Len(coefficients) |->
            point_add(point_mul(gg, coefficients[i]), point_mul(hh, rng[i]))],
     blinding_poly |-> [i \in 1 .. Len(coefficients) |-> rng[i]]]

-----------------------------------------------------------------------------
(* secret_sharing.rs *)

\* How a call ended: a returned Scalar, a panic, or a returned bool.
NoCall == [kind |-> "none", value |-> ZERO, valid |-> FALSE]
Returned(v) == [kind |-> "scalar", value |-> v, valid |-> FALSE]
Panicked == [kind |-> "panic", value |-> ZERO, valid |-> FALSE]
Verdict(b) == [kind |-> "bool", value |-> ZERO, valid |-> b]

\* Share indices counted from 0 instead of 1.
share_points_from_zero(coefficients, nn) ==
    [i \in 1 .. nn |-> <<from(i - 1), evaluate(coefficients, from(i - 1))>>]

\* (1..=n).map(|i| (Scalar::from(i), poly.evaluate(Scalar::from(i))))
share_points(coefficients, nn) ==
    [i \in 1 .. nn |-> <<from(i), evaluate(coefficients, from(i))>>]

\* The numerator multiplied by x_i instead of x_j.
RECURSIVE numerator_own_index(_, _, _)
numerator_own_index(s, i, j) ==
    IF j > Len(s) THEN ONE
    ELSE IF i = j THEN numerator_own_index(s, i, j + 1)
    ELSE mul(s[i][1], numerator_own_index(s, i, j + 1))

\* The inner loop of reconstruct_secret for share i: numerator.
RECURSIVE numerator(_, _, _)
numerator(s, i, j) ==
    IF j > Len(s) THEN ONE
    ELSE IF i = j THEN numerator(s, i, j + 1)
    ELSE mul(s[j][1], numerator(s, i, j + 1))

\* The denominator multiplied by (x_i - x_j) instead of (x_j - x_i).
RECURSIVE denominator_swapped(_, _, _)
denominator_swapped(s, i, j) ==
    IF j > Len(s) THEN ONE
    ELSE IF i = j THEN denominator_swapped(s, i, j + 1)
    ELSE mul(sub(s[i][1], s[j][1]), denominator_swapped(s, i, j + 1))

\* The inner loop of reconstruct_secret for share i: denominator.
RECURSIVE denominator(_, _, _)
denominator(s, i, j) ==
    IF j > Len(s) THEN ONE
    ELSE IF i = j THEN denominator(s, i, j + 1)
    ELSE mul(sub(s[j][1], s[i][1]), denominator(s, i, j + 1))

\* The Lagrange coefficient with the denominator left uninverted.
lagrange_coefficient_uninverted(s, i) ==
    mul(numerator(s, i, 1), denominator(s, i, 1))

\* let lagrange_coefficient = numerator * denominator.invert().unwrap()
lagrange_coefficient(s, i) ==
    mul(numerator(s, i, 1), invert(denominator(s, i, 1)).value)

RECURSIVE interpolate(_, _)
interpolate(s, i) ==
    IF i > Len(s) THEN ZERO
    ELSE add(mul(s[i][2], lagrange_coefficient(s, i)), interpolate(s, i + 1))

\* reconstruct_secret: invert().unwrap() panics on the first zero denominator;
\* the function has no error return.
reconstruct_secret(s) ==
    IF \E i \in 1 .. Len(s) : ~invert(denominator(s, i, 1)).is_some
    THEN Panicked
    ELSE Returned(interpolate(s, 1))

\* The loop of the verifiers with the exponent of x one too high.
RECURSIVE commitment_sum_exponent_off(_, _, _)
commitment_sum_exponent_off(c, x, i) ==
    IF i >= Len(c) THEN IDENTITY
    ELSE point_add(point_mul(c[i + 1], pow(x, i + 1)),
                   commitment_sum_exponent_off(c, x, i + 1))

\* The loop of both verifiers: C_0 + C_1 * x + C_2 * x^2 + ..., from
\* ProjectivePoint::IDENTITY; commitment i of the vector is c[i + 1].
RECURSIVE commitment_sum(_, _, _)
commitment_sum(c, x, i) ==
    IF i >= Len(c) THEN IDENTITY
    ELSE point_add(point_mul(c[i + 1], pow(x, i)), commitment_sum(c, x, i + 1))

\* g * y == C_0 + C_1 * x + ...
verify_share_with_feldman_vss(share, c, gg) ==
    point_mul(gg, share[2]) = commitment_sum(c, share[1], 0)

\* The Pedersen check without the blinding term h * b(x).
verify_share_with_pedersen_vss_unblinded(share, c, blinding, gg, hh) ==
    point_mul(gg, share[2]) = commitment_sum(c, share[1], 0)

verify_share_with_pedersen_vss(share, c, blinding, gg, hh) ==
    point_add(point_mul(gg, share[2]), point_mul(hh, evaluate(blinding, share[1])))
        = commitment_sum(c, share[1], 0)

-----------------------------------------------------------------------------
(* Inputs *)

\* The outcomes of `t - 1` on usize for the given t: with overflow checks the
\* subtraction panics; without them it wraps to usize::MAX and Polynomial::new
\* cannot allocate that many coefficients.
SubOutcomes(tt) ==
    IF tt >= 1 THEN {"ok"} ELSE {"panic_subtract_overflow", "wrapped_degree_abort"}

Rng(k) == [1 .. k -> Scalar]

\* Every non-identity point generates the prime-order group.
Generators == Point \ {IDENTITY}

\* The bases of a Pedersen sharing as the callers build them:
\* g = ProjectivePoint::GENERATOR and h = g * random_scalar.
PedersenBases == {<<GENERATOR, point_mul(GENERATOR, k)>> : k \in Scalar}

\* Sequences of distinct share positions, of any length and in any order.
Selections(nn) ==
    UNION {{s \in [1 .. k -> 1 .. nn] :
              \A a, b \in 1 .. k : a # b => s[a] # s[b]} : k \in 0 .. nn}

\* Sequences of share positions in increasing order.
Subsets(nn) ==
    {s \in Selections(nn) : \A a \in 1 .. Len(s) - 1 : s[a] < s[a + 1]}

\* Caller-built share lists: any indices (repeated, zero) and values.
ShareLists ==
    UNION {[1 .. k -> Scalar \X Scalar] : k \in 0 .. MaxShares}

Init ==
    /\ pc = "idle"
    /\ scheme = "none"
    /\ secret = ZERO /\ n = 0 /\ t = 0
    /\ g = IDENTITY /\ h = IDENTITY
    /\ poly = <<>> /\ blinding_poly = <<>> /\ commitments = <<>>
    /\ shares = <<>>
    /\ outcome = "none"
    /\ op = "none" /\ arg = <<>> /\ commitment_at_x = IDENTITY /\ ret = NoCall

-----------------------------------------------------------------------------
(* Share generation *)

\* generate_shares(secret, n, t, rng)
GenerateShares ==
    /\ pc = "idle" /\ arg = <<>>
    /\ \E s \in Scalar, nn \in 1 .. MaxN :
       \E tt \in 0 .. nn :
       \E o \in SubOutcomes(tt) :
       \E rng \in Rng(IF tt >= 1 THEN tt - 1 ELSE 0) :
          /\ secret' = s /\ n' = nn /\ t' = tt
          /\ outcome' = o
          /\ poly' = IF o = "ok" THEN Polynomial_new(s, tt - 1, rng) ELSE <<>>
          /\ shares' = IF o = "ok" THEN share_points(poly', nn) ELSE <<>>
    /\ scheme' = "shamir"
    /\ pc' = "dealt"
    /\ UNCHANGED <<g, h, blinding_poly, commitments, op, arg, commitment_at_x, ret>>

\* generate_shares_with_feldman_vss(secret, n, t, g, rng)
GenerateSharesWithFeldmanVss ==
    /\ pc = "idle" /\ arg = <<>>
    /\ \E s \in Scalar, nn \in 1 .. MaxN, gg \in Generators :
       \E tt \in 0 .. nn :
       \E o \in SubOutcomes(tt) :
       \E rng \in Rng(IF tt >= 1 THEN tt - 1 ELSE 0) :
          /\ secret' = s /\ n' = nn /\ t' = tt /\ g' = gg
          /\ outcome' = o
          /\ poly' = IF o = "ok" THEN Polynomial_new(s, tt - 1, rng) ELSE <<>>
          /\ commitments' = IF o = "ok" THEN feldman_commit(poly', gg) ELSE <<>>
          /\ shares' = IF o = "ok" THEN share_points(poly', nn) ELSE <<>>
    /\ scheme' = "feldman"
    /\ pc' = "dealt"
    /\ UNCHANGED <<h, blinding_poly, op, arg, commitment_at_x, ret>>

\* generate_shares_with_pedersen_vss(secret, n, t, g, h, rng): the rng serves
\* Polynomial::new first (t - 1 draws), then the commitment (t draws).
GenerateSharesWithPedersenVss ==
    /\ pc = "idle" /\ arg = <<>>
    /\ \E s \in Scalar, nn \in 1 .. MaxPedersenN, gh \in PedersenBases :
       \E tt \in 0 .. nn :
       \E o \in SubOutcomes(tt) :
       \E rng \in Rng(IF tt >= 1 THEN 2 * tt - 1 ELSE 0) :
          /\ secret' = s /\ n' = nn /\ t' = tt /\ g' = gh[1] /\ h' = gh[2]
          /\ outcome' = o
          /\ poly' = IF o = "ok" THEN Polynomial_new(s, tt - 1, rng) ELSE <<>>
          /\ LET c == pedersen_commit(poly', gh[1], gh[2], SubSeq(rng, tt, 2 * tt - 1))
             IN /\ commitments' = IF o = "ok" THEN c.commitments ELSE <<>>
                /\ blinding_poly' = IF o = "ok" THEN c.blinding_poly ELSE <<>>
          /\ shares' = IF o = "ok" THEN share_points(poly', nn) ELSE <<>>
    /\ scheme' = "pedersen"
    /\ pc' = "dealt"
    /\ UNCHANGED <<op, arg, commitment_at_x, ret>>

-----------------------------------------------------------------------------
(* Reconstruction *)

\* reconstruct_secret on a selection of the dealt shares, in any order.
ReconstructSecret ==
    /\ pc = "dealt" /\ outcome = "ok"
    /\ \E sel \in Selections(n) :
          arg' = [p \in 1 .. Len(sel) |-> shares[sel[p]]]
    /\ ret' = reconstruct_secret(arg')
    /\ op' = "reconstruct"
    /\ pc' = "done"
    /\ UNCHANGED <<dealer, commitment_at_x>>

\* reconstruct_secret on a subset of the dealt shares of which one has had its
\* value replaced by another scalar.
ReconstructTampered ==
    /\ pc = "dealt" /\ outcome = "ok"
    /\ \E sel \in Subsets(n) :
       \E k \in 1 .. Len(sel), y \in Scalar :
          /\ y # shares[sel[k]][2]
          /\ arg' = [p \in 1 .. Len(sel) |->
                        IF p = k THEN <<shares[sel[p]][1], y>> ELSE shares[sel[p]]]
    /\ ret' = reconstruct_secret(arg')
    /\ op' = "reconstruct"
    /\ pc' = "done"
    /\ UNCHANGED <<dealer, commitment_at_x>>

\* reconstruct_secret on a share list the caller built.
CallReconstructSecret ==
    /\ pc = "idle" /\ scheme = "none"
    /\ ret' = reconstruct_secret(arg)
    /\ op' = "reconstruct"
    /\ pc' = "done"
    /\ UNCHANGED <<dealer, arg, commitment_at_x>>

-----------------------------------------------------------------------------
(* Verification *)

\* verify_share_with_feldman_vss(share, commitments, g) for any share (x, y).
VerifyShareWithFeldmanVss ==
    /\ pc = "dealt" /\ outcome = "ok" /\ scheme = "feldman"
    /\ \E x \in Scalar, y \in Scalar : arg' = << <<x, y>> >>
    /\ commitment_at_x' = commitment_sum(commitments, arg'[1][1], 0)
    /\ ret' = Verdict(verify_share_with_feldman_vss(arg'[1], commitments, g))
    /\ op' = "verify"
    /\ pc' = "done"
    /\ UNCHANGED dealer

\* verify_share_with_pedersen_vss(share, commitments, blinding_poly, g, h).
VerifyShareWithPedersenVss ==
    /\ pc = "dealt" /\ outcome = "ok" /\ scheme = "pedersen"
    /\ \E x \in Scalar, y \in Scalar : arg' = << <<x, y>> >>
    /\ commitment_at_x' = commitment_sum(commitments, arg'[1][1], 0)
    /\ ret' = Verdict(verify_share_with_pedersen_vss(arg'[1], commitments,
                                                      blinding_poly, g, h))
    /\ op' = "verify"
    /\ pc' = "done"
    /\ UNCHANGED dealer

-----------------------------------------------------------------------------
(* Specifications *)

\* Sharing and reconstruction.
Next ==
    \/ GenerateShares
    \/ GenerateSharesWithFeldmanVss
    \/ ReconstructSecret
    \/ ReconstructTampered

Spec == Init /\ [][Next]_vars

\* Verifiable sharing and share verification.
NextVSS ==
    \/ GenerateSharesWithFeldmanVss
    \/ GenerateSharesWithPedersenVss
    \/ VerifyShareWithFeldmanVss
    \/ VerifyShareWithPedersenVss

SpecVSS == Init /\ [][NextVSS]_vars

\* The three share generators alone.
NextGenerate ==
    \/ GenerateShares
    \/ GenerateSharesWithFeldmanVss
    \/ GenerateSharesWithPedersenVss

SpecGenerate == Init /\ [][NextGenerate]_vars

\* reconstruct_secret on arbitrary share lists.
InitReconstruct ==
    /\ pc = "idle"
    /\ scheme = "none"
    /\ secret = ZERO /\ n = 0 /\ t = 0
    /\ g = IDENTITY /\ h = IDENTITY
    /\ poly = <<>> /\ blinding_poly = <<>> /\ commitments = <<>>
    /\ shares = <<>>
    /\ outcome = "none"
    /\ op = "none" /\ arg \in ShareLists /\ commitment_at_x = IDENTITY
    /\ ret = NoCall

NextReconstruct == CallReconstructSecret

SpecReconstruct == InitReconstruct /\ [][NextReconstruct]_vars

-----------------------------------------------------------------------------
(* Vocabulary of the properties *)

CalledReconstruct == pc = "done" /\ op = "reconstruct"
CalledVerify == pc = "done" /\ op = "verify"

DistinctIndices(a) ==
    \A i, j \in 1 .. Len(a) : i # j => a[i][1] # a[j][1]

DealtShares == {shares[i] : i \in 1 .. Len(shares)}
DealtIndices == {shares[i][1] : i \in 1 .. Len(shares)}

\* The value dealt for index x.
ValueAt(x) == shares[CHOOSE i \in 1 .. Len(shares) : shares[i][1] = x][2]

\* a lists dealt shares only, each at most once.
Untampered(a) ==
    /\ DistinctIndices(a)
    /\ \A k \in 1 .. Len(a) : a[k] \in DealtShares

\* The positions of a whose value is not the value dealt for their index.
TamperedPositions(a) ==
    {k \in 1 .. Len(a) : a[k][2] # ValueAt(a[k][1])}

-----------------------------------------------------------------------------
(* Properties *)

\* C1. Round trip: reconstruct_secret on any t of the dealt shares, in any
\* order, returns exactly the secret (1 <= t <= n, any coefficients).
RoundTrip ==
    (CalledReconstruct /\ t >= 1 /\ Len(arg) = t /\ Untampered(arg))
        => ret = Returned(secret)

\* A threshold-3 sharing with a nonzero quadratic coefficient, reconstructed
\* from three shares taken out of order.
RoundTripWitness ==
    /\ CalledReconstruct /\ t = 3 /\ Len(arg) = 3 /\ Untampered(arg)
    /\ arg[1][1] = 3 /\ arg[2][1] = 1
    /\ poly[3] # ZERO /\ secret # ZERO
    /\ ret = Returned(secret)

\* C2. Feldman binding: a share at a dealt index verifies against the
\* commitments exactly when its value is the dealt value; every returned share
\* passes and every share with a changed value fails.
FeldmanBinding ==
    (CalledVerify /\ scheme = "feldman" /\ arg[1][1] \in DealtIndices)
        => (ret.valid <=> arg[1][2] = ValueAt(arg[1][1]))

\* A returned share of a threshold-2 sharing with 1 added to its value fails.
FeldmanBindingWitness ==
    /\ CalledVerify /\ scheme = "feldman" /\ t = 2 /\ poly[2] # ZERO
    /\ g # GENERATOR
    /\ arg[1][1] = from(2)
    /\ arg[1][2] = add(ValueAt(arg[1][1]), ONE)
    /\ ~ret.valid

\* C3. Pedersen binding: with the returned commitments and blinding
\* polynomial, a share at a dealt index verifies exactly when its value is the
\* dealt value.
PedersenBinding ==
    (CalledVerify /\ scheme = "pedersen" /\ arg[1][1] \in DealtIndices)
        => (ret.valid <=> arg[1][2] = ValueAt(arg[1][1]))

\* A returned share of a blinded threshold-2 sharing with 1 added fails.
PedersenBindingWitness ==
    /\ CalledVerify /\ scheme = "pedersen" /\ t = 2 /\ poly[2] # ZERO
    /\ h # IDENTITY /\ blinding_poly[2] # ZERO
    /\ arg[1][1] = from(2)
    /\ arg[1][2] = add(ValueAt(arg[1][1]), ONE)
    /\ ~ret.valid

\* C4. Zero threshold: share generation called with t = 0 ends in an explicit
\* DegreeUnderflow rejection, never in the unchecked t - 1.
ZeroThresholdRejected ==
    (pc = "dealt" /\ t = 0) => outcome = "DegreeUnderflow"

\* C5. Duplicate x-coordinates: reconstruct_secret on shares two of which
\* have the same x-coordinate returns a typed SingularInterpolation error and
\* does not panic.
DuplicateIndexIsTypedError ==
    (CalledReconstruct /\ ~DistinctIndices(arg))
        => ret.kind = "SingularInterpolation"

\* C6 as stated. Zero share index: a share with x-coordinate 0 among pairwise
\* distinct shares makes reconstruct_secret fail rather than return a scalar.
ZeroIndexIsSingular ==
    (CalledReconstruct /\ DistinctIndices(arg)
        /\ \E k \in 1 .. Len(arg) : arg[k][1] = ZERO)
        => ret.kind # "scalar"

\* C6 as amended. Zero share index: among pairwise distinct shares no Lagrange
\* denominator is zero, and reconstruct_secret returns the value of the share
\* whose x-coordinate is 0.
ZeroIndexReturnsItsValue ==
    \A k \in 1 .. Len(arg) :
        (CalledReconstruct /\ DistinctIndices(arg) /\ arg[k][1] = ZERO)
            => /\ \A i \in 1 .. Len(arg) : denominator(arg, i, 1) # ZERO
               /\ ret = Returned(arg[k][2])

\* Three shares at x = 2, 0, 1: the call returns the value given at x = 0.
ZeroIndexWitness ==
    /\ CalledReconstruct /\ Len(arg) = 3
    /\ arg[1][1] = 2 /\ arg[2][1] = ZERO /\ arg[3][1] = 1
    /\ arg[1][2] # arg[2][2] /\ arg[3][2] # arg[2][2]
    /\ ret = Returned(arg[2][2])

\* C7. Tampering: reconstruct_secret on t dealt shares of which exactly one
\* has had its value changed returns a scalar other than the secret.
TamperingChangesSecret ==
    (CalledReconstruct /\ t >= 1 /\ Len(arg) = t /\ DistinctIndices(arg)
        /\ (\A k \in 1 .. Len(arg) : arg[k][1] \in DealtIndices)
        /\ Cardinality(TamperedPositions(arg)) = 1)
        => (ret.kind = "scalar" /\ ret.value # secret)

\* Three shares of a threshold-3 Feldman sharing, the second one changed.
TamperingWitness ==
    /\ CalledReconstruct /\ scheme = "feldman" /\ t = 3 /\ Len(arg) = 3
    /\ DistinctIndices(arg)
    /\ TamperedPositions(arg) = {2}
    /\ ret.kind = "scalar" /\ ret.value # secret

\* C8 as stated. Threshold insufficiency: reconstruct_secret on t - 1 of the
\* dealt shares (t >= 2) returns a scalar that is not the secret, whatever the
\* random coefficients.
InsufficientSharesNeverSecret ==
    (CalledReconstruct /\ t >= 2 /\ Len(arg) = t - 1 /\ Untampered(arg))
        => (ret.kind = "scalar" /\ ret.value # secret)

\* C8 as amended. Threshold insufficiency: reconstruct_secret on t - 1 of the
\* dealt shares (t >= 2) returns a scalar, which differs from the secret
\* exactly when the highest coefficient drawn for the polynomial is nonzero.
InsufficientSharesMissUnlessTopZero ==
    (CalledReconstruct /\ t >= 2 /\ Len(arg) = t - 1 /\ Untampered(arg))
        => (ret.kind = "scalar" /\ (ret.value # secret <=> poly[t] # ZERO))

\* Two shares of a threshold-3 sharing give a scalar that is not the secret.
InsufficientSharesWitness ==
    /\ CalledReconstruct /\ t = 3 /\ Len(arg) = 2 /\ Untampered(arg)
    /\ poly[3] # ZERO
    /\ ret.kind = "scalar" /\ ret.value # secret

\* C9. Commitment homomorphism: at every scalar x the sum of C_i * x^i is
\* g * p(x) for Feldman commitments and g * p(x) + h * b(x) for Pedersen
\* commitments with blinding polynomial b.
CommitmentHomomorphism ==
    CalledVerify =>
        commitment_at_x =
            IF scheme = "feldman"
            THEN point_mul(g, evaluate(poly, arg[1][1]))
            ELSE point_add(point_mul(g, evaluate(poly, arg[1][1])),
                           point_mul(h, evaluate(blinding_poly, arg[1][1])))

\* A blinded degree-1 polynomial evaluated away from the share indices.
CommitmentHomomorphismWitness ==
    /\ CalledVerify /\ scheme = "pedersen" /\ t = 2
    /\ poly[2] # ZERO /\ blinding_poly[2] # ZERO /\ h # IDENTITY
    /\ arg[1][1] \notin DealtIndices /\ arg[1][1] # ZERO
    /\ commitment_at_x # IDENTITY

\* C10. Commitment length: the commitment vector has one entry per
\* coefficient (Feldman: C_i = g * c_i), the Pedersen blinding polynomial has
\* one coefficient per coefficient, so a sharing of threshold t >= 1 returns
\* exactly t commitments.
CommitmentLength ==
    (pc # "idle" /\ outcome = "ok") =>
        /\ Len(poly) = t
        /\ Len(commitments) = Len(poly)
        /\ scheme = "feldman" =>
              \A i \in 1 .. Len(poly) : commitments[i] = point_mul(g, poly[i])
        /\ scheme = "pedersen" => Len(blinding_poly) = Len(poly)

\* A Pedersen sharing of threshold 2 with its 2 commitments.
CommitmentLengthWitness ==
    /\ pc = "dealt" /\ outcome = "ok" /\ scheme = "pedersen"
    /\ t = 2 /\ Len(commitments) = 2 /\ Len(blinding_poly) = 2

\* The sum of c_k * x^k over the coefficients c_0, c_1, ... of c, term by term.
RECURSIVE PowerSum(_, _, _)
PowerSum(c, x, k) ==
    IF k >= Len(c) THEN ZERO
    ELSE add(mul(c[k + 1], pow(x, k)), PowerSum(c, x, k + 1))

\* C11. Share shape: a generator called with t >= 1 returns exactly n shares
\* in order, the i-th being (i, p(i)), on one polynomial p of exactly t
\* coefficients whose coefficient 0 and value at 0 are the secret and whose
\* evaluate(x) is the sum of c_k * x^k; the indices are pairwise distinct and
\* nonzero.
ShareShape ==
    (pc = "dealt" /\ outcome = "ok" /\ t >= 1) =>
        /\ Len(shares) = n
        /\ Len(poly) = t
        /\ poly[1] = secret
        /\ evaluate(poly, ZERO) = secret
        /\ \A x \in Scalar : evaluate(poly, x) = PowerSum(poly, x, 0)
        /\ \A i \in 1 .. n : shares[i] = <<from(i), PowerSum(poly, from(i), 0)>>
        /\ \A i \in 1 .. n : shares[i][1] # ZERO
        /\ DistinctIndices(shares)

\* A Pedersen sharing of threshold 2 in 2 shares on a polynomial of degree 1.
ShareShapeWitness ==
    /\ pc = "dealt" /\ outcome = "ok" /\ scheme = "pedersen"
    /\ t = 2 /\ n = 2 /\ secret # ZERO /\ poly[2] # ZERO
    /\ shares[2] = <<2, add(secret, mul(2, poly[2]))>>

====
